---- MODULE Spec2Model ----
(***************************************************************************)
(* Latent-Stars back end: the H-R diagram pipeline (hr_diagram_plot.py),   *)
(* the colour table (color_palette.py) and the 3D latent-space plot        *)
(* (latent_space_plot_3d.py).                                              *)
(*                                                                         *)
(* Representation.  A spectral string is a sequence of one-character       *)
(* strings.  A missing value (pandas NaN / Python None) is the string      *)
(* "nan" for a numeric field, the sequence NaN for a spect cell and the    *)
(* string "None" for a derived class, intensity or colour.  The numeric    *)
(* catalog fields are carried as their CSV text, since process_data only   *)
(* tests them for presence.  An intensity is written as Python prints the  *)
(* float: "3.0", "5.0".                                                    *)
(***************************************************************************)
EXTENDS Integers, Sequences, FiniteSets, TLC

VARIABLES spect, cls_pc, spect_class, spect_num, color,
          file_exists, lat_pc, lat_color, lat_plotted, lat_messages,
          hyg_file, main_pc, df, calls, messages, plotted,
          outcomes, served, url_ix, attempts

clsVars  == <<spect, cls_pc, spect_class, spect_num, color>>
latVars  == <<file_exists, lat_pc, lat_color, lat_plotted, lat_messages>>
mainVars == <<hyg_file, main_pc, df, calls, messages, plotted>>
loadVars == <<outcomes, served, url_ix, attempts>>
vars     == <<clsVars, latVars, mainVars, loadVars>>

(***************************************************************************)
(* Bounds of the model.                                                    *)
(***************************************************************************)
MaxLen  == 3    \* longest enumerated spectral string
MaxRows == 2    \* longest enumerated catalog

(***************************************************************************)
(* Characters and strings.                                                 *)
(***************************************************************************)
None == "None"
NaN  == <<"nan">>

UpperLetters == {"A","B","C","D","E","F","G","H","I","J","K","L","M",
                 "N","O","P","Q","R","S","T","U","V","W","X","Y","Z"}
LowerLetters == {"a","b","c","d","e","f","g","h","i","j","k","l","m",
                 "n","o","p","q","r","s","t","u","v","w","x","y","z"}
AsciiLetters == UpperLetters \cup LowerLetters
Digits       == {"0","1","2","3","4","5","6","7","8","9"}
Whitespace   == {" ", "\t"}

\* the character class of the pattern at hr_diagram_plot.py:88
ClassLetters == {"O","B","A","F","G","K","M","R","N","S","W","C","P","L","D"}

\* str.upper() on one character
UpperChar(c) ==
  CASE c = "a" -> "A" [] c = "b" -> "B" [] c = "c" -> "C" [] c = "d" -> "D"
    [] c = "e" -> "E" [] c = "f" -> "F" [] c = "g" -> "G" [] c = "h" -> "H"
    [] c = "i" -> "I" [] c = "j" -> "J" [] c = "k" -> "K" [] c = "l" -> "L"
    [] c = "m" -> "M" [] c = "n" -> "N" [] c = "o" -> "O" [] c = "p" -> "P"
    [] c = "q" -> "Q" [] c = "r" -> "R" [] c = "s" -> "S" [] c = "t" -> "T"
    [] c = "u" -> "U" [] c = "v" -> "V" [] c = "w" -> "W" [] c = "x" -> "X"
    [] c = "y" -> "Y" [] c = "z" -> "Z" [] OTHER -> c

\* str.upper()
Upper(s) == [i \in 1..Len(s) |-> UpperChar(s[i])]

\* str.strip(): drop leading and trailing whitespace
Strip(s) ==
  LET keep == {i \in 1..Len(s) : s[i] \notin Whitespace}
  IN  IF keep = {} THEN <<>>
      ELSE LET a == CHOOSE i \in keep : \A j \in keep : i <= j
               b == CHOOSE i \in keep : \A j \in keep : j <= i
           IN  SubSeq(s, a, b)

\* float(d) for a one-digit string d, as Python prints it
FloatOfDigit(d) ==
  CASE d = "0" -> "0.0" [] d = "1" -> "1.0" [] d = "2" -> "2.0"
    [] d = "3" -> "3.0" [] d = "4" -> "4.0" [] d = "5" -> "5.0"
    [] d = "6" -> "6.0" [] d = "7" -> "7.0" [] d = "8" -> "8.0"
    [] d = "9" -> "9.0"

DefaultSubclass == "5.0"

\* fault: the rightmost class letter instead of the leftmost
SearchPosLast(t) ==
  LET hits == {i \in 1..Len(t) : t[i] \in ClassLetters}
  IN  IF hits = {} THEN 0 ELSE CHOOSE i \in hits : \A j \in hits : j <= i

\* re.search(r'([OBAFGKMRNSWCPLD])(\d)?', t): the start of the leftmost
\* match, 0 when there is none
SearchPos(t) ==
  LET hits == {i \in 1..Len(t) : t[i] \in ClassLetters}
  IN  IF hits = {} THEN 0 ELSE CHOOSE i \in hits : \A j \in hits : i <= j

\* fault: the pattern without its digit group
SearchDigitNever(t, i) == None

\* match.group(2): the digit right after the matched letter, None otherwise
SearchDigit(t, i) ==
  IF i + 1 <= Len(t) /\ t[i + 1] \in Digits THEN t[i + 1] ELSE None


(***************************************************************************)
(* Spectral classifier and colour resolver.                                *)
(***************************************************************************)
NoClass == [cls |-> None, num |-> None]

\* fault: no default intensity, the class letter comes back alone
extract_no_default(x) ==
  IF x = NaN \/ x = <<>> THEN NoClass
  ELSE LET t == Strip(Upper(x))
           i == SearchPos(t)
       IN  IF i = 0 THEN NoClass
           ELSE LET spect_digit == SearchDigit(t, i)
                IN  IF spect_digit # None
                    THEN [cls |-> t[i], num |-> FloatOfDigit(spect_digit)]
                    ELSE [cls |-> t[i], num |-> None]

\* process_data.extract_spectral_data (hr_diagram_plot.py:78-100)
extract_spectral_data(x) ==
  IF x = NaN \/ x = <<>> THEN NoClass
  ELSE LET t == Strip(Upper(x))
           i == SearchPos(t)
       IN  IF i = 0 THEN NoClass
           ELSE LET spect_digit == SearchDigit(t, i)
                IN  IF spect_digit # None
                    THEN [cls |-> t[i], num |-> FloatOfDigit(spect_digit)]
                    ELSE [cls |-> t[i], num |-> DefaultSubclass]

\* color_palette.COLOR_MAP
COLOR_MAP ==
  [c \in {"O","B","A","F","G","K","M","D","N","C","R","P","S","W"} |->
     CASE c = "O" -> "#8bd1ff" [] c = "B" -> "#a7caff" [] c = "A" -> "#dae9ff"
       [] c = "F" -> "#fff7e8" [] c = "G" -> "#ffe9b5" [] c = "K" -> "#ffcd89"
       [] c = "M" -> "#ffa77d" [] c = "D" -> "#ffffff" [] c = "N" -> "#a52a2a"
       [] c = "C" -> "#800000" [] c = "R" -> "#cd5c5c" [] c = "P" -> "#7fffd4"
       [] c = "S" -> "#ffd700" [] c = "W" -> "#fd3db5"]

\* Series.map(COLOR_MAP) on one cell: a key outside the table maps to NaN
MapColor(c) == IF c \in DOMAIN COLOR_MAP THEN COLOR_MAP[c] ELSE None

\* df['spect'].str[0].str.upper().map(COLOR_MAP) on one cell
\* (latent_space_plot_3d.py:19)
LatentColor(x) ==
  IF x = NaN \/ x = <<>> THEN None ELSE MapColor(UpperChar(x[1]))

(***************************************************************************)
(* process_data on a table.                                                *)
(***************************************************************************)
star_id_to_correct == 65218
F7 == <<"F", "7">>

\* fault: dropna over lum as well
DropNaWithLum(rows) ==
  SelectSeq(rows, LAMBDA r : r.absmag # "nan" /\ r.ci # "nan" /\ r.spect # NaN
                             /\ r.lum # "nan")

\* df.dropna(subset=['absmag', 'ci', 'spect'])
DropNa(rows) ==
  SelectSeq(rows, LAMBDA r : r.absmag # "nan" /\ r.ci # "nan" /\ r.spect # NaN)

\* fault: the correction left out
CorrectNothing(rows) == rows

\* df.loc[df['id'] == 65218, 'spect'] = 'F7'
CorrectAnomaly(rows) ==
  [i \in 1..Len(rows) |->
     IF rows[i].id = star_id_to_correct
     THEN [rows[i] EXCEPT !.spect = F7] ELSE rows[i]]

\* df[['spect_class','spect_num']] = df['spect'].apply(...);
\* df['color'] = df['spect_class'].map(COLOR_MAP)
AddDerived(rows) ==
  [i \in 1..Len(rows) |->
     LET r == rows[i]
         k == extract_spectral_data(r.spect)
     IN  [id |-> r.id, absmag |-> r.absmag, ci |-> r.ci, lum |-> r.lum,
          spect |-> r.spect, spect_class |-> k.cls, spect_num |-> k.num,
          color |-> MapColor(k.cls)]]

NoFrame       == [kind |-> "None", rows |-> <<>>]
Frame(rows)   == [kind |-> "DataFrame", rows |-> rows]
NoPayload     == [kind |-> "None", rows |-> <<>>]
Corrupt       == [kind |-> "corrupt", rows |-> <<>>]
Payload(rows) == [kind |-> "csv.gz", rows |-> rows]

\* fault: the correction applied before the required-field filter
process_data_fix_first(f) ==
  IF f.kind # "csv.gz" THEN NoFrame
  ELSE Frame(AddDerived(DropNa(CorrectAnomaly(f.rows))))

\* process_data's return value: None when read_csv raises, the table otherwise
process_data(f) ==
  IF f.kind # "csv.gz" THEN NoFrame
  ELSE Frame(AddDerived(CorrectAnomaly(DropNa(f.rows))))


(***************************************************************************)
(* Inputs.                                                                 *)
(***************************************************************************)
G2V       == <<"G", "2", "V">>
O5        == <<"O", "5">>
Composite == <<"(", "G", "3", "w", ")", "F", "7">>
KM5       == <<"K", "M", "5">>
sdM5      == <<"s", "d", "M", "5">>
M3III     == <<"M", "3", "I", "I", "I">>
L1        == <<"L", "1">>
III       == <<"I", "I", "I">>

\* characters the enumerated strings are built from: class letters in both
\* cases, L (scanned, not coloured), letters outside the class, a
\* parenthesis, a digit and a blank
Alphabet == {"G", "k", "L", "M", "V", "e", "(", "3", " "}

Strings == UNION {[1..n -> Alphabet] : n \in 0..MaxLen}

Inputs == Strings \cup {NaN, G2V, O5, Composite, F7, KM5, sdM5, M3III}

Records ==
  [id : {1, star_id_to_correct}, absmag : {"nan", "4.8"}, ci : {"nan", "0.65"},
   lum : {"nan", "1.0"}, spect : {NaN, Composite, L1, III}]

Row(i, a, c, l, s) == [id |-> i, absmag |-> a, ci |-> c, lum |-> l, spect |-> s]

\* the catalog of the end-to-end scenario
ScenarioCatalog ==
  << Row(1, "4.8", "0.65", "1.0", G2V),
     Row(2, "-5.0", "-0.2", "50000", O5),
     Row(star_id_to_correct, "2.0", "0.1", "2.0", Composite),
     Row(3, "1.0", "1.2", "10", NaN) >>

Catalogs == UNION {[1..n -> Records] : n \in 0..MaxRows} \cup {ScenarioCatalog}

\* HYG_URLS has two entries
NumUrls == 2

RequestExceptions == {"ConnectionError", "Timeout", "HTTPError"}
Outcomes == {"ok", "other_fault"} \cup RequestExceptions

\* what a URL may serve with status 200
Payloads == {Corrupt, Payload(ScenarioCatalog), Payload(<<Row(1, "4.8", "nan", "1.0", G2V)>>)}

(***************************************************************************)
(* Initial states.                                                         *)
(***************************************************************************)
ClsIdle ==
  /\ cls_pc = "call" /\ spect_class = None /\ spect_num = None /\ color = None

LatIdle ==
  /\ lat_pc = "call" /\ lat_color = None /\ lat_plotted = FALSE
  /\ lat_messages = <<>>

InitClassify ==
  /\ spect \in Inputs
  /\ ClsIdle
  /\ file_exists \in BOOLEAN
  /\ LatIdle
  /\ hyg_file = NoPayload /\ main_pc = "idle" /\ df = NoFrame
  /\ calls = <<>> /\ messages = <<>> /\ plotted = FALSE
  /\ outcomes = [i \in 1..NumUrls |-> "ok"]
  /\ served = [i \in 1..NumUrls |-> Corrupt]
  /\ url_ix = 1 /\ attempts = <<>>

\* main() about to run
InitMain ==
  /\ spect = G2V
  /\ ClsIdle
  /\ file_exists \in BOOLEAN
  /\ LatIdle
  /\ hyg_file = NoPayload /\ main_pc = "start" /\ df = NoFrame
  /\ calls = <<>> /\ messages = <<>> /\ plotted = FALSE
  /\ outcomes \in [1..NumUrls -> Outcomes]
  /\ served \in [1..NumUrls -> Payloads]
  /\ url_ix = 1 /\ attempts = <<>>

\* main() at line 157, holding a downloaded payload
InitProcess ==
  /\ spect = G2V
  /\ ClsIdle
  /\ file_exists = FALSE
  /\ LatIdle
  /\ hyg_file \in {Payload(c) : c \in Catalogs} \cup {Corrupt}
  /\ main_pc = "process" /\ df = NoFrame
  /\ calls = <<"download_data", "process_data">>
  /\ messages = <<"Starting data pipeline", "Trying URL", "Download successful.">>
  /\ plotted = FALSE
  /\ outcomes = [i \in 1..NumUrls |-> "ok"]
  /\ served = [i \in 1..NumUrls |-> hyg_file]
  /\ url_ix = 1 /\ attempts = <<1>>

(***************************************************************************)
(* Actions.                                                                *)
(***************************************************************************)
\* one cell through lines 103-107: extract_spectral_data, then the colour
ClassifyRow ==
  /\ cls_pc = "call"
  /\ LET k == extract_spectral_data(spect)
     IN  /\ spect_class' = k.cls
         /\ spect_num' = k.num
         /\ color' = MapColor(k.cls)
  /\ cls_pc' = "done"
  /\ UNCHANGED <<spect, latVars, mainVars, loadVars>>

\* plot_latent_space on a file whose row holds spect
PlotLatentSpace ==
  /\ lat_pc = "call"
  /\ IF file_exists
     THEN /\ lat_color' = LatentColor(spect)
          /\ lat_plotted' = TRUE
          /\ lat_messages' = <<"Static latent space plot successfully saved">>
     ELSE /\ lat_messages' = <<"Error: The file was not found.">>
          /\ UNCHANGED <<lat_color, lat_plotted>>
  /\ lat_pc' = "returned"
  /\ UNCHANGED <<file_exists, clsVars, mainVars, loadVars>>

\* main: hyg_file = download_data(), up to the loop
StartDownload ==
  /\ main_pc = "start"
  /\ main_pc' = "download"
  /\ calls' = Append(calls, "download_data")
  /\ messages' = Append(messages, "Starting data pipeline")
  /\ UNCHANGED <<hyg_file, df, plotted, clsVars, latVars, loadVars>>

\* fault: the return inside the loop left out, the loop goes on
TryUrlSuccessNoReturn ==
  /\ main_pc = "download" /\ url_ix <= NumUrls
  /\ outcomes[url_ix] = "ok"
  /\ attempts' = Append(attempts, url_ix)
  /\ messages' = messages \o <<"Trying URL", "Download successful.">>
  /\ hyg_file' = served[url_ix]
  /\ url_ix' = url_ix + 1
  /\ UNCHANGED <<main_pc, df, calls, plotted, outcomes, served, clsVars, latVars>>

\* one iteration of the loop whose try block completes: return hyg_file
TryUrlSuccess ==
  /\ main_pc = "download" /\ url_ix <= NumUrls
  /\ outcomes[url_ix] = "ok"
  /\ attempts' = Append(attempts, url_ix)
  /\ messages' = messages \o <<"Trying URL", "Download successful.">>
  /\ hyg_file' = served[url_ix]
  /\ main_pc' = "downloaded"
  /\ UNCHANGED <<df, calls, plotted, outcomes, served, url_ix, clsVars, latVars>>

\* one iteration whose try block raises a RequestException: next URL
TryUrlRequestException ==
  /\ main_pc = "download" /\ url_ix <= NumUrls
  /\ outcomes[url_ix] \in RequestExceptions
  /\ attempts' = Append(attempts, url_ix)
  /\ messages' = messages \o <<"Trying URL", "Error downloading", "Trying next URL...">>
  /\ url_ix' = url_ix + 1
  /\ UNCHANGED <<hyg_file, main_pc, df, calls, plotted, outcomes, served,
                 clsVars, latVars>>

\* one iteration whose try block raises anything else: no handler matches and
\* the exception leaves download_data and main
TryUrlOtherFault ==
  /\ main_pc = "download" /\ url_ix <= NumUrls
  /\ outcomes[url_ix] = "other_fault"
  /\ attempts' = Append(attempts, url_ix)
  /\ messages' = Append(messages, "Trying URL")
  /\ main_pc' = "raised"
  /\ UNCHANGED <<hyg_file, df, calls, plotted, outcomes, served, url_ix,
                 clsVars, latVars>>

\* the loop ran out of URLs: return None
DownloadExhausted ==
  /\ main_pc = "download" /\ url_ix > NumUrls
  /\ messages' = Append(messages, "All download attempts failed.")
  /\ hyg_file' = NoPayload
  /\ main_pc' = "downloaded"
  /\ UNCHANGED <<df, calls, plotted, loadVars, clsVars, latVars>>

\* main: if hyg_file (a BytesIO is always truthy, None is not)
CheckDownload ==
  /\ main_pc = "downloaded"
  /\ IF hyg_file.kind # "None"
     THEN /\ main_pc' = "process"
          /\ calls' = Append(calls, "process_data")
     ELSE /\ main_pc' = "end"
          /\ UNCHANGED calls
  /\ UNCHANGED <<hyg_file, df, messages, plotted, loadVars, clsVars, latVars>>

\* main: df = process_data(hyg_file)
ProcessData ==
  /\ main_pc = "process"
  /\ df' = process_data(hyg_file)
  /\ messages' = IF df'.kind = "None"
                 THEN Append(messages, "An unexpected error occurred during data processing")
                 ELSE messages \o <<"Total HYG stars", "Row before change",
                                    "Row after change", "Data filtered."
                                    >>
  /\ main_pc' = "processed"
  /\ UNCHANGED <<hyg_file, calls, plotted, loadVars, clsVars, latVars>>

\* fault: create_plot called without the test on df
CreatePlotUnguarded ==
  /\ main_pc = "processed"
  /\ calls' = Append(calls, "create_plot")
  /\ plotted' = TRUE
  /\ messages' = Append(messages, "H-R Diagram successfully saved")
  /\ main_pc' = "end"
  /\ UNCHANGED <<hyg_file, df, loadVars, clsVars, latVars>>

\* main: if df is not None: create_plot(df, 'hr_diagram.png')
CreatePlot ==
  /\ main_pc = "processed" /\ df.kind # "None"
  /\ calls' = Append(calls, "create_plot")
  /\ plotted' = TRUE
  /\ messages' = Append(messages, "H-R Diagram successfully saved")
  /\ main_pc' = "end"
  /\ UNCHANGED <<hyg_file, df, loadVars, clsVars, latVars>>

\* main: df is None, fall off the end
SkipPlot ==
  /\ main_pc = "processed" /\ df.kind = "None"
  /\ main_pc' = "end"
  /\ UNCHANGED <<hyg_file, df, calls, messages, plotted, loadVars, clsVars, latVars>>

NextClassify == ClassifyRow \/ PlotLatentSpace

NextMain ==
  \/ StartDownload \/ TryUrlSuccess \/ TryUrlRequestException
  \/ TryUrlOtherFault \/ DownloadExhausted \/ CheckDownload
  \/ ProcessData \/ CreatePlot \/ SkipPlot \/ PlotLatentSpace

NextProcess == ProcessData \/ CreatePlot \/ SkipPlot

SpecClassify == InitClassify /\ [][NextClassify]_vars
SpecMain     == InitMain /\ [][NextMain]_vars
SpecProcess  == InitProcess /\ [][NextProcess]_vars


(***************************************************************************)
(* Properties of the spectral classifier (SpecClassify).                   *)
(***************************************************************************)
Classified == cls_pc = "done"

\* the intensity the contract attaches to the class letter at position i of t
IntensityAt(t, i) ==
  IF i < Len(t) /\ t[i + 1] \in Digits THEN FloatOfDigit(t[i + 1]) ELSE "5.0"

\* C1: for a non-missing, non-empty string the class letter is the leftmost
\* character of the upper-cased, trimmed string that lies in the scanned
\* alphabet, the intensity is the digit standing right after that letter and
\* 5.0 when none does; "(G3w)F7" gives G, 3.0 and "F7" gives F, 7.0.
C1_FirstLetterWins ==
  (Classified /\ spect # NaN /\ spect # <<>>) =>
    LET t == Strip(Upper(spect))
    IN  /\ \A i \in 1..Len(t) :
             (t[i] \in ClassLetters /\ \A j \in 1..(i - 1) : t[j] \notin ClassLetters)
               => (spect_class = t[i] /\ spect_num = IntensityAt(t, i))
        /\ spect = Composite => (spect_class = "G" /\ spect_num = "3.0")
        /\ spect = F7 => (spect_class = "F" /\ spect_num = "7.0")

C1_Witness ==
  Classified /\ spect = Composite /\ spect_class = "G" /\ spect_num = "3.0"

\* the anchored pattern ^\s*[a-zA-Z]*([OBAFGKMRNSWCPLD])(\d)?.*$ under
\* re.IGNORECASE: the blanks and the letter run it consumes, and the class
\* letter its greedy letter run backtracks to (the last one of the run)
LeadBlanks(s) ==
  CHOOSE n \in 0..Len(s) :
    /\ \A i \in 1..n : s[i] \in Whitespace
    /\ n < Len(s) => s[n + 1] \notin Whitespace

LetterRunEnd(s) ==
  CHOOSE e \in LeadBlanks(s)..Len(s) :
    /\ \A i \in (LeadBlanks(s) + 1)..e : s[i] \in AsciiLetters
    /\ e < Len(s) => s[e + 1] \notin AsciiLetters

RunClassPositions(s) ==
  {i \in (LeadBlanks(s) + 1)..LetterRunEnd(s) : UpperChar(s[i]) \in ClassLetters}

AnchoredMatches(s) == s # NaN /\ RunClassPositions(s) # {}

AnchoredPos(s) ==
  CHOOSE i \in RunClassPositions(s) : \A j \in RunClassPositions(s) : j <= i

AgreesWithAnchored ==
  LET p == AnchoredPos(spect)
  IN  /\ spect_class = UpperChar(spect[p])
      /\ spect_num = IntensityAt(spect, p)

\* C2 as stated: on every string the anchored pattern matches, the classifier
\* returns the pattern's captured letter and digit.
C2_AnchoredAgreement ==
  (Classified /\ AnchoredMatches(spect)) => AgreesWithAnchored

\* C2 amended: the classifier agrees with the anchored pattern's captures on
\* the matching strings whose leading letter run holds exactly one class
\* letter.
C2_AnchoredAgreementSingle ==
  (Classified /\ AnchoredMatches(spect)
     /\ Cardinality(RunClassPositions(spect)) = 1) => AgreesWithAnchored

C2_Witness ==
  /\ Classified /\ AnchoredMatches(spect)
  /\ Cardinality(RunClassPositions(spect)) = 1
  /\ AnchoredPos(spect) > LeadBlanks(spect) + 1
  /\ spect_class = "M" /\ spect_num = "3.0"

ColoredLetters == {"O","B","A","F","G","K","M","N","C","R","P","S","W","D"}
Intensities == {"0.0","1.0","2.0","3.0","4.0","5.0","6.0","7.0","8.0","9.0"}

NoAlphabetChar(s) ==
  s = NaN \/ s = <<>> \/ \A i \in 1..Len(s) : UpperChar(s[i]) \notin ClassLetters

ClassificationShape(letters) ==
  Classified =>
    \/ spect_class = None /\ spect_num = None /\ NoAlphabetChar(spect)
    \/ spect_class \in letters /\ spect_num \in Intensities
         /\ ~NoAlphabetChar(spect)

\* C8 as stated: a classification is fully absent (exactly when the input is
\* missing, empty or without alphabet character) or fully present with a
\* class letter among the 14 coloured symbols and an intensity in [0,9].
C8_FourteenSymbols == ClassificationShape(ColoredLetters)

\* C8 amended: a classification is fully absent (exactly when the input is
\* missing, empty or without alphabet character) or fully present with a
\* class letter among the 15 scanned symbols, the 14 coloured ones and L,
\* and an intensity in [0,9]; never half present.
C8_FifteenSymbols == ClassificationShape(ColoredLetters \cup {"L"})

C8_Witness == Classified /\ spect_class = "L" /\ spect_num = "3.0"

\* C10: the colour plot_latent_space gives a row equals COLOR_MAP looked up
\* on the class letter extract_spectral_data returns for the same string.
C10_SameColor ==
  (Classified /\ lat_pc = "returned" /\ file_exists) => lat_color = color


(***************************************************************************)
(* Properties of process_data (SpecProcess).                               *)
(***************************************************************************)
Processed == main_pc \in {"processed", "end"}

\* what the scenario's output carries, row by row
Emitted(rows) ==
  [i \in 1..Len(rows) |->
     <<rows[i].id, rows[i].spect, rows[i].spect_class, rows[i].spect_num,
       rows[i].color>>]

\* C3 as stated: the scenario catalog yields rows 1, 2, 65218 in input order
\* with G / 5.0 / #ffe9b5, O / 5.0 / #8bd1ff and F / 7.0 / #fff7e8, row
\* 65218 carrying the corrected spectrum "F7".
C3_ScenarioAsStated ==
  (Processed /\ hyg_file = Payload(ScenarioCatalog)) =>
    /\ df.kind = "DataFrame"
    /\ Emitted(df.rows) =
         << <<1, G2V, "G", "5.0", "#ffe9b5">>,
            <<2, O5, "O", "5.0", "#8bd1ff">>,
            <<star_id_to_correct, F7, "F", "7.0", "#fff7e8">> >>

\* C3 amended: the scenario catalog yields rows 1, 2, 65218 in input order
\* with G / 2.0 / #ffe9b5 (the digit of "G2V"), O / 5.0 / #8bd1ff and
\* F / 7.0 / #fff7e8, row 3 dropped and row 65218 corrected to "F7".
C3_Scenario ==
  (Processed /\ hyg_file = Payload(ScenarioCatalog)) =>
    /\ df.kind = "DataFrame"
    /\ Emitted(df.rows) =
         << <<1, G2V, "G", "2.0", "#ffe9b5">>,
            <<2, O5, "O", "5.0", "#8bd1ff">>,
            <<star_id_to_correct, F7, "F", "7.0", "#fff7e8">> >>

C3_Witness ==
  main_pc = "end" /\ plotted /\ hyg_file = Payload(ScenarioCatalog) /\ Len(df.rows) = 3

\* the required-field policy of the contract
Eligible(r) == r.absmag # "nan" /\ r.ci # "nan" /\ r.spect # NaN

EligibleIdx(rows) == {j \in 1..Len(rows) : Eligible(rows[j])}

\* the output position of eligible input row j
Rank(rows, j) == Cardinality({k \in EligibleIdx(rows) : k <= j})

C5_AnomalyFrame ==
  (Processed /\ hyg_file.kind = "csv.gz") =>
    LET in == hyg_file.rows
        out == df.rows
    IN  /\ Len(out) = Cardinality(EligibleIdx(in))
        /\ \A j \in EligibleIdx(in) :
             LET o == out[Rank(in, j)]
             IN  /\ <<o.id, o.absmag, o.ci, o.lum>>
                      = <<in[j].id, in[j].absmag, in[j].ci, in[j].lum>>
                 /\ o.spect = IF in[j].id = star_id_to_correct THEN F7
                              ELSE in[j].spect
        /\ Cardinality({i \in 1..Len(out) : out[i].id = star_id_to_correct})
             = Cardinality({j \in EligibleIdx(in) : in[j].id = star_id_to_correct})

C5_Witness ==
  /\ Processed /\ Len(hyg_file.rows) = 2 /\ Len(df.rows) = 1
  /\ hyg_file.rows[1].id = star_id_to_correct /\ hyg_file.rows[1].spect = NaN
  /\ hyg_file.rows[1].absmag # "nan" /\ hyg_file.rows[1].ci # "nan"
  /\ df.rows[1].id = 1 /\ df.rows[1].spect = Composite
  /\ df.rows[1].spect_class = "G"

(***************************************************************************)
(* Properties of download_data and main (SpecMain).                        *)
(***************************************************************************)
Downloaded == main_pc \in {"downloaded", "process", "processed", "end"}

FirstOk(k) == outcomes[k] = "ok" /\ \A j \in 1..(k - 1) : outcomes[j] # "ok"

\* C6: URLs are attempted in list order, URL k+1 only after the attempt on
\* URL k failed; the payload returned is that of the first URL that
\* succeeds and nothing is attempted after it.
C6_OrderedFallback ==
  /\ attempts = [i \in 1..Len(attempts) |-> i]
  /\ \A k \in 1..(Len(attempts) - 1) : outcomes[k] \in RequestExceptions
  /\ (Downloaded /\ hyg_file.kind # "None") =>
       \E k \in 1..NumUrls :
         /\ FirstOk(k)
         /\ hyg_file = served[k]
         /\ Len(attempts) = k

C6_Witness ==
  /\ main_pc = "end" /\ outcomes[1] = "Timeout" /\ outcomes[2] = "ok"
  /\ hyg_file = served[2] /\ served[1] # served[2] /\ attempts = <<1, 2>>

\* C7: whatever the attempts' outcomes, download_data returns a payload or
\* None and raises nothing, None exactly when every URL failed; and
\* plot_latent_space returns without plotting when the file is missing.
C7_NoFaultEscapes ==
  /\ main_pc # "raised"
  /\ Downloaded => (hyg_file.kind = "None" <=> \A i \in 1..NumUrls : outcomes[i] # "ok")
  /\ (lat_pc = "returned" /\ ~file_exists) => ~lat_plotted

\* C9: create_plot runs only after download_data returned a payload and
\* process_data a table, in the order download, process, plot; when either
\* returns None the run ends without create_plot and with its failure
\* message printed.
C9_Gating ==
  /\ (plotted \/ "H-R Diagram successfully saved" \in {messages[i] : i \in 1..Len(messages)})
       => /\ hyg_file.kind # "None" /\ df.kind = "DataFrame"
          /\ calls = <<"download_data", "process_data", "create_plot">>
  /\ (Downloaded /\ hyg_file.kind = "None" /\ main_pc # "downloaded")
       => /\ main_pc = "end" /\ ~plotted /\ calls = <<"download_data">>
          /\ messages[Len(messages)] = "All download attempts failed."
  /\ (Processed /\ hyg_file.kind # "None" /\ df.kind = "None")
       => /\ ~plotted /\ calls = <<"download_data", "process_data">>
          /\ messages[Len(messages)] = "An unexpected error occurred during data processing"

C9_Witness ==
  /\ main_pc = "end" /\ hyg_file = Corrupt /\ df.kind = "None" /\ ~plotted
  /\ outcomes[1] = "HTTPError"

====
